---- MODULE Spec2Model ----
(***************************************************************************)
(* honold: cookie-backed flash store for Hono.                             *)
(*                                                                         *)
(* The module models                                                       *)
(*   - the FlashStore class (src/lib/flash.ts 222-478): initialize, flash, *)
(*     flashInputs, getInputs, get, reflash, filterFlashValues,            *)
(*     normalizeFilters, checkKeyAgainstFilters, commit;                   *)
(*   - the honold middleware and the exported wrappers                     *)
(*     (src/lib/flash.ts 29-139) with the AsyncLocalStorage binding;       *)
(*   - the schema guards isFlash / isFlashValue (src/unnamed/part_000);    *)
(*   - the form-data codec (src/lib/formdata-flash.ts);                    *)
(*   - one client whose cookie jar carries the flash cookie from one       *)
(*     response to the next request.                                       *)
(***************************************************************************)
EXTENDS Integers, Sequences, FiniteSets, TLC

(***************************************************************************)
(* Bounds of the model.                                                    *)
(***************************************************************************)
\* requests the client sends in one behaviour
MaxReq == 3
\* requests handled at the same time (specification SpecConc)
MaxInFlight == 2
\* API calls made by all handlers (and by code outside any handler) together
MaxCalls == 2
\* segments of a key path or filter path given to the matcher (SpecMatch)
MaxPath == 2
\* entries of a submitted form given to the codec (SpecCodec)
MaxForm == 3
\* elements of the "values" array given to the schema guards (SpecSchema)
MaxElems == 2

Reqs == 1..MaxReq
\* execution contexts: Root is code running outside FLASH_RUNTIME_STORE.run,
\* context r is the async context of the handler of request r
Root == 0
Ctx == 0..MaxReq
\* "no store": AsyncLocalStorage.getStore() returned undefined
NoStore == 0

(***************************************************************************)
(* JavaScript values.                                                      *)
(***************************************************************************)
\* a JSON value flashed by the application: a string, or the object that
\* serializeFormData produces (a list of  name -> list of strings  pairs in
\* property order)
StrVal(s) == [t |-> "str", s |-> s, o |-> <<>>]
ObjVal(o) == [t |-> "obj", s |-> "", o |-> o]
\* the value undefined
UndefVal == [t |-> "undefined", s |-> "", o |-> <<>>]
\* null, and a number written as its literal
NullVal == [t |-> "null", s |-> "", o |-> <<>>]
NumVal(s) == [t |-> "number", s |-> s, o |-> <<>>]

\* an argument of type  string | string[] | string[][]
ArgStr(s) == [form |-> "str", s |-> s, p |-> <<>>, ps |-> <<>>]
ArgArr(p) == [form |-> "arr", s |-> "", p |-> p, ps |-> <<>>]
\* a non-empty array of arrays (the empty array is ArgArr(<<>>))
ArgArr2(ps) == [form |-> "arr2", s |-> "", p |-> <<>>, ps |-> ps]

\* x.length of such an argument: characters of a string, elements of an array
JsLength(x) ==
  IF x.form = "str" THEN Len(x.s)
  ELSE IF x.form = "arr" THEN Len(x.p)
  ELSE Len(x.ps)

\* [key].flat() for key : string | string[]
Flat(key) == IF key.form = "str" THEN <<key.s>> ELSE key.p

\* the Flash container {valid, values}
EmptyFlash == [valid |-> FALSE, values |-> <<>>]

(***************************************************************************)
(* JSON text.  A cookie value is a text: the empty string, a text that     *)
(* JSON.parse rejects, or a JSON document.  A document records what the    *)
(* schema guards look at.                                                  *)
(***************************************************************************)
NullDoc ==
  [t |-> "null", validT |-> "undefined", validV |-> FALSE, valuesArr |-> FALSE,
   values |-> <<>>]

EmptyText == [kind |-> "empty", doc |-> NullDoc]
JunkText == [kind |-> "junk", doc |-> NullDoc]
JsonText(d) == [kind |-> "json", doc |-> d]

\* numbers JSON has no literal for
NonFinite == {"NaN", "Infinity", "-Infinity"}

\* what JSON.stringify writes for a property value: null for a number that
\* is not finite, the value itself otherwise
JSONvalue(v) == IF v.t = "number" /\ v.s \in NonFinite THEN NullVal ELSE v

\* one element of "values" as JSON.stringify writes a FlashValue: a property
\* whose value is undefined is left out
EntryDoc(e) ==
  [t |-> "object", keyArr |-> TRUE, keyStr |-> TRUE, key |-> e.key,
   hasValue |-> e.value.t # "undefined", value |-> JSONvalue(e.value)]

\* JSON.stringify writing the newest entry first
JSONstringify_newestFirst(flash) ==
  [kind |-> "json",
   doc |-> [t |-> "object", validT |-> "boolean", validV |-> flash.valid,
            valuesArr |-> TRUE,
            values |-> [i \in 1..Len(flash.values) |->
                          EntryDoc(flash.values[Len(flash.values) + 1 - i])]]]

\* JSON.stringify(this.next)
JSONstringify(flash) ==
  JsonText([t |-> "object", validT |-> "boolean", validV |-> flash.valid,
            valuesArr |-> TRUE,
            values |-> [i \in 1..Len(flash.values) |-> EntryDoc(flash.values[i])]])

\* JSON.parse(rawCookieValue): throws unless the text is a JSON document
JSONparse(text) == [threw |-> text.kind # "json", doc |-> text.doc]

\* typeof of a parsed value: null and arrays are objects
typeof(value) == IF value.t \in {"object", "array", "null"} THEN "object" ELSE value.t

\* isFlashValue asking for a defined value instead of a value property
isFlashValue_definedValue(value) ==
  IF typeof(value) # "object" \/ value.t = "null" THEN FALSE
  ELSE IF ~value.keyArr \/ ~value.keyStr THEN FALSE
  ELSE value.hasValue /\ value.value.t # "undefined"

\* isFlashValue(value)
isFlashValue(value) ==
  IF typeof(value) # "object" \/ value.t = "null" THEN FALSE
  ELSE IF ~value.keyArr \/ ~value.keyStr THEN FALSE
  ELSE value.hasValue

\* isFlash(value)
isFlash(value) ==
  IF typeof(value) # "object" \/ value.t = "null" THEN FALSE
  ELSE IF ~value.valuesArr
          \/ ~(\A i \in 1..Len(value.values) : isFlashValue(value.values[i]))
       THEN FALSE
  ELSE value.validT = "boolean"

\* a document that passed isFlash, read as a Flash
AsFlash(d) ==
  [valid |-> d.validV,
   values |-> [i \in 1..Len(d.values) |->
                 [key |-> d.values[i].key, value |-> d.values[i].value]]]

(***************************************************************************)
(* Cookies.                                                                *)
(***************************************************************************)
\* flash.ts:53, the default of the cookieName option
CookieName == "flash"

\* the value getCookie finds under the flash cookie's name (or undefined)
NoCookie == [present |-> FALSE, text |-> EmptyText]
Cookie(text) == [present |-> TRUE, text |-> text]

\* hono's setCookie(c, name, value, opt): one more Set-Cookie header
setCookie(headers, name, value, maxAge) ==
  Append(headers, [name |-> name, value |-> value, maxAge |-> maxAge])

\* hono's deleteCookie(c, name): returns the incoming value and asks the
\* client to drop the cookie (Set-Cookie with Max-Age=0)
deleteCookie(headers, incoming, name) ==
  [value |-> incoming, headers |-> setCookie(headers, name, EmptyText, "0")]

(***************************************************************************)
(* Form-data codec.                                                        *)
(***************************************************************************)
\* index of `name` in the pair list `obj`, 0 when it has no such property
RECURSIVE IndexOf(_, _, _)
IndexOf(obj, name, i) ==
  IF i > Len(obj) THEN 0
  ELSE IF obj[i].name = name THEN i
  ELSE IndexOf(obj, name, i + 1)

\* names every object literal inherits from Object.prototype: obj[name] is
\* a truthy value without a push method
InheritedNames ==
  {"constructor", "toString", "valueOf", "hasOwnProperty", "__proto__"}

\* the numeric value of a property name that is an array index, 0 for any
\* other name
IndexRank(name) ==
  CASE name = "1" -> 1
    [] name = "2" -> 2
    [] OTHER -> 0

\* obj[name] = [] for a new name.  The own properties of an object are
\* ordered: array-index names ascending, then the others as created
DefineProperty(obj, name) ==
  LET before == IF IndexRank(name) = 0 THEN Len(obj)
                ELSE Cardinality({j \in 1..Len(obj) :
                                    /\ IndexRank(obj[j].name) > 0
                                    /\ IndexRank(obj[j].name) < IndexRank(name)})
  IN SubSeq(obj, 1, before) \o <<[name |-> name, kind |-> "array", vals |-> <<>>]>>
       \o SubSeq(obj, before + 1, Len(obj))

\* serializeFormData(formData); formData is the list of entries
\* [name, value, isString] in submission order.  `threw` is the TypeError of
\* obj[key].push on an inherited value
RECURSIVE serializeFrom(_, _, _)
serializeFrom(formData, i, obj) ==
  IF i > Len(formData) THEN [threw |-> FALSE, obj |-> obj]
  ELSE IF ~formData[i].isString THEN serializeFrom(formData, i + 1, obj)
  ELSE IF formData[i].name \in InheritedNames THEN [threw |-> TRUE, obj |-> obj]
  ELSE LET made == IF IndexOf(obj, formData[i].name, 1) = 0
                   THEN DefineProperty(obj, formData[i].name)
                   ELSE obj
           k == IndexOf(made, formData[i].name, 1)
       IN serializeFrom(formData, i + 1,
            [made EXCEPT ![k].vals = Append(@, formData[i].value)])

serializeFormData(formData) == serializeFrom(formData, 1, <<>>)

\* the enumerable properties of a value read as Record<string, string[]>:
\* those of an object; of a string, one per character (strings of the model
\* have at most one character here); `kind` is what the property holds
Chars(str) == IF str = "" THEN <<>> ELSE <<str>>
AsRecord(value) ==
  IF value.t = "obj" THEN value.o
  ELSE IF value.t = "str"
  THEN [k \in 1..Len(Chars(value.s)) |->
          [name |-> "0", kind |-> "string", vals |-> <<Chars(value.s)[k]>>]]
  ELSE <<>>

\* for (const value of data[key]): arrays and strings are iterable, a number
\* or null is not (TypeError)
IsIterable(prop) == prop.kind \in {"array", "string"}

\* deserializeFormData(data): every value of every name, appended in order;
\* `threw` when a property is not iterable
RECURSIVE deserializeFrom(_, _, _)
deserializeFrom(data, i, formData) ==
  IF i > Len(data) THEN [threw |-> FALSE, formData |-> formData]
  ELSE IF ~IsIterable(data[i]) THEN [threw |-> TRUE, formData |-> formData]
  ELSE deserializeFrom(data, i + 1,
         formData \o [j \in 1..Len(data[i].vals) |->
                        [name |-> data[i].name, value |-> data[i].vals[j],
                         isString |-> TRUE]])

deserializeFormData(data) == deserializeFrom(data, 1, <<>>)

(***************************************************************************)
(* KeyPathMatcher: the private filter helpers of FlashStore.               *)
(***************************************************************************)
\* FlashStore.normalizeFilters(filters)
normalizeFilters(filters) ==
  IF filters.form = "str" THEN <<(<<filters.s>>)>>
  ELSE IF filters.form = "arr2" /\ Len(filters.ps) > 0 THEN filters.ps
  ELSE IF JsLength(filters) = 0 THEN <<>>
  ELSE <<filters.p>>

\* the comparison of lengths counting from one instead of zero
everyPart_countsFromOne(key, f) == \A i \in 1..Len(f) : Len(key) > i /\ key[i] = f[i]

\* f.every((part, i) => key.length > i && key[i] === part)
everyPart(key, f) == \A i \in 1..Len(f) : Len(key) >= i /\ key[i] = f[i]

\* FlashStore.checkKeyAgainstFilters(key, filter)
checkKeyAgainstFilters(key, filter) ==
  LET filters == normalizeFilters(filter)
  IN \E j \in 1..Len(filters) : everyPart(key, filters[j])

\* a filter in which a picked entry is kept whatever omit says
filterFlashValues_pickWins(values, pick, omit) ==
  SelectSeq(values,
    LAMBDA e :
      IF JsLength(pick) > 0 THEN checkKeyAgainstFilters(e.key, pick)
      ELSE IF JsLength(omit) > 0 /\ checkKeyAgainstFilters(e.key, omit) THEN FALSE
      ELSE TRUE)

\* FlashStore.filterFlashValues(values, pick, omit)
filterFlashValues(values, pick, omit) ==
  SelectSeq(values,
    LAMBDA e :
      IF JsLength(pick) > 0 /\ ~checkKeyAgainstFilters(e.key, pick) THEN FALSE
      ELSE IF JsLength(omit) > 0 /\ checkKeyAgainstFilters(e.key, omit) THEN FALSE
      ELSE TRUE)

(***************************************************************************)
(* FlashStore.  `current` and `next` are Flash containers; the methods     *)
(* return the new value of the field they assign.                          *)
(***************************************************************************)
\* initialize without the schema check on the parsed cookie
initialize_noSchemaCheck(headers, incoming) ==
  LET dc == deleteCookie(headers, incoming, CookieName)
      rawCookieValue == dc.value
      parsed == JSONparse(rawCookieValue.text)
      flash == IF ~rawCookieValue.present \/ rawCookieValue.text.kind = "empty"
               THEN EmptyFlash
               ELSE IF parsed.threw THEN EmptyFlash
               ELSE AsFlash(parsed.doc)
  IN [flash |-> flash, headers |-> dc.headers]

\* initialize reading the cookie with getCookie: nothing asks the client to
\* drop it
initialize_keepsCookie(headers, incoming) ==
  LET rawCookieValue == incoming
      parsed == JSONparse(rawCookieValue.text)
      flash == IF ~rawCookieValue.present \/ rawCookieValue.text.kind = "empty"
               THEN EmptyFlash
               ELSE IF parsed.threw THEN EmptyFlash
               ELSE IF ~isFlash(parsed.doc) THEN EmptyFlash
               ELSE AsFlash(parsed.doc)
  IN [flash |-> flash, headers |-> headers]

\* FlashStore.initialize(): the container read from the incoming cookie and
\* the response headers after deleteCookie
initialize(headers, incoming) ==
  LET dc == deleteCookie(headers, incoming, CookieName)
      rawCookieValue == dc.value
      parsed == JSONparse(rawCookieValue.text)
      flash == IF ~rawCookieValue.present \/ rawCookieValue.text.kind = "empty"
               THEN EmptyFlash
               ELSE IF parsed.threw THEN EmptyFlash
               ELSE IF ~isFlash(parsed.doc) THEN EmptyFlash
               ELSE AsFlash(parsed.doc)
  IN [flash |-> flash, headers |-> dc.headers]

\* flash putting the new entry in front of the queue
FlashStore_flash_inFront(nxt, key, value) ==
  [valid |-> TRUE,
   values |-> <<[key |-> <<"ext">> \o Flat(key), value |-> value]>> \o nxt.values]

\* FlashStore.flash(key, value): the new `next`
FlashStore_flash(nxt, key, value) ==
  [valid |-> TRUE,
   values |-> Append(nxt.values, [key |-> <<"ext">> \o Flat(key), value |-> value])]

\* FlashStore.flashInputs(): the new `next`; formData is the request's form
FlashStore_flashInputs(nxt, formData) ==
  LET serialized == serializeFormData(formData)
  IN IF serialized.threw THEN nxt
     ELSE [valid |-> TRUE,
           values |-> Append(nxt.values,
                             [key |-> <<"inputs">>, value |-> ObjVal(serialized.obj)])]

\* the first element of a list that satisfies Test, 0 when there is none
RECURSIVE findInputs(_, _)
findInputs(values, i) ==
  IF i > Len(values) THEN 0
  ELSE IF Len(values[i].key) = 1 /\ values[i].key[1] = "inputs" THEN i
  ELSE findInputs(values, i + 1)

\* FlashStore.getInputs(): `some` is FALSE for undefined, `threw` is the
\* TypeError of deserializeFormData
getInputs(cur) ==
  LET at == findInputs(cur.values, 1)
      made == deserializeFormData(AsRecord(cur.values[at].value))
  IN IF ~cur.valid THEN [some |-> FALSE, threw |-> FALSE, formData |-> <<>>]
     ELSE IF at = 0 THEN [some |-> FALSE, threw |-> FALSE, formData |-> <<>>]
     ELSE IF made.threw THEN [some |-> FALSE, threw |-> TRUE, formData |-> <<>>]
     ELSE [some |-> TRUE, threw |-> FALSE, formData |-> made.formData]

\* FlashStore.get() without a filter
FlashStore_getAll(cur) == cur

\* get(keyFilter) matching the stored key as it is, without the "ext" segment
FlashStore_get_rawKey(cur, keyFilter) ==
  LET kf == Flat(keyFilter)
      hit == SelectSeq(cur.values, LAMBDA e : everyPart(e.key, kf))
  IN [i \in 1..Len(hit) |-> hit[i].value]

\* FlashStore.get(keyFilter)
FlashStore_get(cur, keyFilter) ==
  LET kf == <<"ext">> \o Flat(keyFilter)
      hit == SelectSeq(cur.values, LAMBDA e : everyPart(e.key, kf))
  IN [i \in 1..Len(hit) |-> hit[i].value]

\* the options of reflash, with the defaults of the parameter list
DefaultOpt == [append |-> TRUE, omit |-> ArgArr(<<>>), pick |-> ArgArr(<<>>)]

\* reflash putting the entries of current in front of the queued ones
FlashStore_reflash_inFront(cur, nxt, opt) ==
  LET valuesToReflash == filterFlashValues(cur.values, opt.pick, opt.omit)
  IN IF opt.append
     THEN [valid |-> TRUE, values |-> valuesToReflash \o nxt.values]
     ELSE [valid |-> TRUE, values |-> valuesToReflash]

\* reflash that marks next valid only when there is something to carry
FlashStore_reflash_validIfAny(cur, nxt, opt) ==
  LET valuesToReflash == filterFlashValues(cur.values, opt.pick, opt.omit)
  IN IF opt.append
     THEN [valid |-> nxt.valid \/ Len(valuesToReflash) > 0,
           values |-> nxt.values \o valuesToReflash]
     ELSE [valid |-> Len(valuesToReflash) > 0, values |-> valuesToReflash]

\* FlashStore.reflash({append, omit, pick}): the new `next`
FlashStore_reflash(cur, nxt, opt) ==
  LET valuesToReflash == filterFlashValues(cur.values, opt.pick, opt.omit)
  IN IF opt.append
     THEN [valid |-> TRUE, values |-> nxt.values \o valuesToReflash]
     ELSE [valid |-> TRUE, values |-> valuesToReflash]

\* commit without the guard on next.valid
commit_always(nxt, headers) ==
  setCookie(headers, CookieName, JSONstringify(nxt), "unset")

\* FlashStore.commit(): the response headers after it
commit(nxt, headers) ==
  IF ~nxt.valid THEN headers
  ELSE LET flashData == JSONstringify(nxt)
       IN setCookie(headers, CookieName, flashData, "unset")

(***************************************************************************)
(* The running system: one client, MaxReq requests, the middleware.        *)
(***************************************************************************)
VARIABLES
  autoReflash,  \* the autoReflash option the middleware was built with
  jar,          \* the client's flash cookie
  jarFrom,      \* the request whose response last wrote the jar (0: none)
  pc,           \* per request: "idle", "handler", "post", "sent", "done",
                \* or "aborted" when the middleware ended without commit
  prev,         \* per request: jarFrom when the request was sent
  method,       \* per request: c.req.method
  status,       \* per request: c.res.status once the handler returned
  reqCookie,    \* per request: the flash cookie in the request's Cookie header
  formData,     \* per request: the submitted form
  current,      \* per store: FlashStore.current
  next,         \* per store: FlashStore.next
  headers,      \* per request: the Set-Cookie headers of the response so far
  alsStore,     \* FLASH_RUNTIME_STORE: per execution context, the bound store
  log,          \* per execution context: the API calls it made, in order
  probe         \* SpecMatch: the arguments and result of one matcher call

vars ==
  <<autoReflash, jar, jarFrom, pc, prev, method, status, reqCookie,
    formData, current, next, headers, alsStore, log, probe>>

\* the store of request r is identified by r
StoreOf(r) == r

(***************************************************************************)
(* Inputs.                                                                 *)
(***************************************************************************)
Methods == {"GET", "POST"}
Statuses == {200, 302}

\* the form a POST request submits; a GET request has no body
SampleForm ==
  << [name |-> "name", value |-> "Alice", isString |-> TRUE],
     [name |-> "tags", value |-> "a", isString |-> TRUE],
     [name |-> "tags", value |-> "b", isString |-> TRUE] >>
FormOf(m) == IF m = "POST" THEN SampleForm ELSE <<>>

\* keys and values the handlers flash
FlashKeys == {ArgStr("error"), ArgArr(<<"form", "error">>)}
FlashValues == {StrVal("too short")}

\* options the handlers pass to reflash
ReflashOpts ==
  { DefaultOpt,
    [append |-> FALSE, omit |-> ArgArr(<<>>), pick |-> ArgArr(<<>>)] }

\* cookies a client can send that no response ever set
ForgedEntry(key, value) == [key |-> key, value |-> value]
ForgedDoc(valid, values) ==
  [t |-> "object", validT |-> "boolean", validV |-> valid, valuesArr |-> TRUE,
   values |-> [i \in 1..Len(values) |-> EntryDoc(values[i])]]
SampleValues ==
  << ForgedEntry(<<"ext", "error">>, StrVal("x")),
     ForgedEntry(<<"inputs">>, ObjVal(serializeFormData(SampleForm).obj)) >>
BadInputs(kind, vals) ==
  << ForgedEntry(<<"inputs">>,
                 ObjVal(<<[name |-> "name", kind |-> kind, vals |-> vals]>>)) >>
ForgedCookies ==
  { Cookie(EmptyText),
    Cookie(JunkText),
    \* JSON, but not an object
    Cookie(JsonText(NullDoc)),
    \* an object without "valid"
    Cookie(JsonText([ForgedDoc(TRUE, SampleValues) EXCEPT !.validT = "undefined"])),
    \* "values" holds an element whose key is not an array of strings
    Cookie(JsonText([ForgedDoc(TRUE, SampleValues) EXCEPT !.values[1].keyStr = FALSE])),
    \* a well-formed container that says valid: false and still holds values
    Cookie(JsonText(ForgedDoc(FALSE, SampleValues))),
    \* a well-formed container with valid: true
    Cookie(JsonText(ForgedDoc(TRUE, SampleValues))),
    \* well-formed containers whose ["inputs"] entry is no mapping from names
    \* to lists of strings: {name: 5}, {name: "A"}, "x"
    Cookie(JsonText(ForgedDoc(TRUE, BadInputs("number", <<>>)))),
    Cookie(JsonText(ForgedDoc(TRUE, BadInputs("string", <<"A">>)))),
    Cookie(JsonText(ForgedDoc(TRUE, <<ForgedEntry(<<"inputs">>, StrVal("x"))>>))) }

(***************************************************************************)
(* FLASH_RUNTIME_STORE (AsyncLocalStorage) and the exported functions.     *)
(* Each function returns [threw, store, next]: whether getFlashStore threw,*)
(* the store it returned, and the `next` field of every store afterwards.  *)
(***************************************************************************)
\* one module-level variable instead of AsyncLocalStorage
ALSrun_global(als, ctx, store) == [c \in Ctx |-> store]

\* FLASH_RUNTIME_STORE.run(store, next): binds store in the context the
\* callback and its continuations run in
ALSrun(als, ctx, store) == [als EXCEPT ![ctx] = store]

\* FLASH_RUNTIME_STORE.getStore() in context ctx
ALSgetStore(ctx) == alsStore[ctx]

\* getFlashStore falling back on the first store instead of throwing
getFlashStore_fallsBack(ctx) ==
  IF ALSgetStore(ctx) = NoStore THEN StoreOf(1) ELSE ALSgetStore(ctx)

\* getFlashStore(): NoStore stands for the thrown Error
getFlashStore(ctx) == ALSgetStore(ctx)

\* `ret` is the value returned; Undefined when there is none
Undefined == [some |-> FALSE, s |-> "", b |-> FALSE, list |-> <<>>]
DefinedStr(s) == [some |-> TRUE, s |-> s, b |-> FALSE, list |-> <<>>]
DefinedBool(b) == [some |-> TRUE, s |-> "", b |-> b, list |-> <<>>]
DefinedList(l) == [some |-> TRUE, s |-> "", b |-> FALSE, list |-> l]

Thrown == [threw |-> TRUE, store |-> NoStore, next |-> next, ret |-> Undefined]
Returned(store, nxt, ret) ==
  [threw |-> FALSE, store |-> store, next |-> nxt, ret |-> ret]
\* an error raised by the method of the bound store
Raised(store) == [threw |-> TRUE, store |-> store, next |-> next, ret |-> Undefined]

\* flashInputs(); the promise rejects when serializeFormData throws
flashInputs(ctx) ==
  LET store == getFlashStore(ctx)
  IN IF store = NoStore THEN Thrown
     ELSE IF serializeFormData(formData[store]).threw THEN Raised(store)
     ELSE Returned(store,
            [next EXCEPT ![store] = FlashStore_flashInputs(@, formData[store])],
            Undefined)

\* flash(key, value)
flash(ctx, key, value) ==
  LET store == getFlashStore(ctx)
  IN IF store = NoStore THEN Thrown
     ELSE Returned(store, [next EXCEPT ![store] = FlashStore_flash(@, key, value)],
                   Undefined)

\* reflash({append, pick, except})
reflash(ctx, opt) ==
  LET store == getFlashStore(ctx)
  IN IF store = NoStore THEN Thrown
     ELSE Returned(store,
            [next EXCEPT ![store] = FlashStore_reflash(current[store], @, opt)],
            Undefined)

\* getFlash reading the queue of the next request as well
getFlash_readsNext(ctx, filters) ==
  LET store == getFlashStore(ctx)
      both == [valid |-> TRUE, values |-> current[store].values \o next[store].values]
  IN IF store = NoStore THEN Thrown
     ELSE Returned(store, next, DefinedList(FlashStore_get(both, filters)))

\* getFlash(filters)
getFlash(ctx, filters) ==
  LET store == getFlashStore(ctx)
  IN IF store = NoStore THEN Thrown
     ELSE Returned(store, next, DefinedList(FlashStore_get(current[store], filters)))

\* FormData.getAll(name)
getAll(fd, name) ==
  LET hit == SelectSeq(fd, LAMBDA e : e.name = name)
  IN [i \in 1..Len(hit) |-> hit[i].value]

\* old(name)
old(ctx, name) ==
  LET store == getFlashStore(ctx)
      fd == getInputs(current[store])
      value == getAll(fd.formData, name)
  IN IF store = NoStore THEN Thrown
     ELSE IF fd.threw THEN Raised(store)
     ELSE IF ~fd.some THEN Returned(store, next, Undefined)
     ELSE IF value = <<>> THEN Returned(store, next, Undefined)
     ELSE Returned(store, next, DefinedStr(value[1]))

\* oldChecked(name)
oldChecked(ctx, name) ==
  LET store == getFlashStore(ctx)
      fd == getInputs(current[store])
  IN IF store = NoStore THEN Thrown
     ELSE IF fd.threw THEN Raised(store)
     ELSE IF ~fd.some THEN Returned(store, next, Undefined)
     ELSE Returned(store, next, DefinedBool(getAll(fd.formData, name) # <<>>))

\* FormData.get(name): the first value, null when there is none
get(fd, name) ==
  LET value == getAll(fd, name)
  IN IF value = <<>> THEN [null |-> TRUE, s |-> ""]
     ELSE [null |-> FALSE, s |-> value[1]]

\* the oldChecked(name) that stands next to the input-props helpers
\* (src/unnamed/part_001): undefined when the field is absent, else
\* Boolean(value), which is false for the empty string
oldChecked_viaGet(ctx, name) ==
  LET store == getFlashStore(ctx)
      fd == getInputs(current[store])
      value == get(fd.formData, name)
  IN IF store = NoStore THEN Thrown
     ELSE IF fd.threw THEN Raised(store)
     ELSE IF ~fd.some THEN Returned(store, next, Undefined)
     ELSE IF value.null THEN Returned(store, next, Undefined)
     ELSE Returned(store, next, DefinedBool(value.s # ""))

\* a ?? b for a boolean b
Coalesce(ret, b) == IF ret.some THEN ret.b ELSE b

\* checkboxInputProps(name, defaultIsChecked).checked, with the oldChecked
\* of the same part of the source
checkboxInputProps(ctx, name, defaultIsChecked) ==
  [type |-> "checkbox", name |-> name, id |-> name,
   checked |-> Coalesce(oldChecked_viaGet(ctx, name).ret, defaultIsChecked)]

\* oldSelected(name, optionValue)
oldSelected(ctx, name, optionValue) ==
  LET store == getFlashStore(ctx)
      fd == getInputs(current[store])
      value == getAll(fd.formData, name)
  IN IF store = NoStore THEN Thrown
     ELSE IF fd.threw THEN Raised(store)
     ELSE IF ~fd.some THEN Returned(store, next, Undefined)
     ELSE Returned(store, next,
            DefinedBool(\E i \in 1..Len(value) : value[i] = optionValue))

(***************************************************************************)
(* API calls.  A call is recorded in the log of the context that made it.  *)
(***************************************************************************)
NoArg == ArgArr(<<>>)
NoVal == StrVal("")
Call(op, key, value, opt, name) ==
  [op |-> op, key |-> key, value |-> value, opt |-> opt, name |-> name,
   threw |-> FALSE, store |-> NoStore, others |-> 0]

CallFlash(key, value) == Call("flash", key, value, DefaultOpt, "")
CallReflash(opt) == Call("reflash", NoArg, NoVal, opt, "")
CallFlashInputs == Call("flashInputs", NoArg, NoVal, DefaultOpt, "")
CallGetFlash(filters) == Call("getFlash", filters, NoVal, DefaultOpt, "")
CallOld(name) == Call("old", NoArg, NoVal, DefaultOpt, name)
CallOldChecked(name) == Call("oldChecked", NoArg, NoVal, DefaultOpt, name)
CallOldSelected(name, v) == Call("oldSelected", NoArg, StrVal(v), DefaultOpt, name)

\* one call of each exported function
ApiCalls ==
  { CallFlash(ArgStr("error"), StrVal("too short")),
    CallReflash(DefaultOpt),
    CallFlashInputs,
    CallGetFlash(ArgStr("error")),
    CallOld("name"),
    CallOldChecked("name"),
    CallOldSelected("tags", "a") }

\* what the exported function named by the call does in context ctx
Result(ctx, c) ==
  CASE c.op = "flash" -> flash(ctx, c.key, c.value)
    [] c.op = "reflash" -> reflash(ctx, c.opt)
    [] c.op = "flashInputs" -> flashInputs(ctx)
    [] c.op = "getFlash" -> getFlash(ctx, c.key)
    [] c.op = "old" -> old(ctx, c.name)
    [] c.op = "oldChecked" -> oldChecked(ctx, c.name)
    [] c.op = "oldSelected" -> oldSelected(ctx, c.name, c.value.s)

RECURSIVE SumLen(_, _)
SumLen(f, i) == IF i > MaxReq THEN 0 ELSE Len(f[i]) + SumLen(f, i + 1)
CallsMade == SumLen(log, 0)

\* the requests other than ctx whose handler is running
Running(ctx) == Cardinality({r \in Reqs : pc[r] = "handler"} \ {ctx})

\* calls that write the cookie at once instead of waiting for commit
Invoke_writesThrough(ctx, c) ==
  LET res == Result(ctx, c)
  IN /\ CallsMade < MaxCalls
     /\ next' = res.next
     /\ log' = [log EXCEPT ![ctx] =
                  Append(@, [c EXCEPT !.threw = res.threw, !.store = res.store,
                                      !.others = Running(ctx)])]
     /\ headers' = IF res.threw THEN headers
                   ELSE [headers EXCEPT ![res.store] = commit(res.next[res.store], @)]
     /\ UNCHANGED <<autoReflash, jar, jarFrom, pc, prev, method, status,
                    reqCookie, formData, current, alsStore, probe>>

\* context ctx makes the call c
Invoke(ctx, c) ==
  LET res == Result(ctx, c)
  IN /\ CallsMade < MaxCalls
     /\ next' = res.next
     /\ log' = [log EXCEPT ![ctx] =
                  Append(@, [c EXCEPT !.threw = res.threw, !.store = res.store,
                                      !.others = Running(ctx)])]
     /\ UNCHANGED <<autoReflash, jar, jarFrom, pc, prev, method, status,
                    reqCookie, formData, current, headers, alsStore, probe>>

(***************************************************************************)
(* The middleware (honold) and the client.                                 *)
(***************************************************************************)
\* honold, lines 56-59: the client sends request r with its cookie; the
\* middleware builds the store, binds it and starts the handler
StartWith(r, m, fd) ==
  /\ pc[r] = "idle"
  /\ \A q \in Reqs : q < r => pc[q] # "idle"
  /\ LET made == initialize(<<>>, jar)
     IN /\ current' = [current EXCEPT ![StoreOf(r)] = made.flash]
        /\ headers' = [headers EXCEPT ![r] = made.headers]
  /\ next' = [next EXCEPT ![StoreOf(r)] = EmptyFlash]
  /\ alsStore' = ALSrun(alsStore, r, StoreOf(r))
  /\ reqCookie' = [reqCookie EXCEPT ![r] = jar]
  /\ method' = [method EXCEPT ![r] = m]
  /\ formData' = [formData EXCEPT ![r] = fd]
  /\ prev' = [prev EXCEPT ![r] = jarFrom]
  /\ pc' = [pc EXCEPT ![r] = "handler"]
  /\ UNCHANGED <<autoReflash, jar, jarFrom, status, log, probe>>

\* a GET request, or a POST request that submits the sample form
Start(r, m) == StartWith(r, m, FormOf(m))

\* the client submits form fd after it got the response to the request before
SeqSubmit(r, fd) ==
  /\ \A q \in Reqs : q < r => pc[q] = "done"
  /\ StartWith(r, "POST", fd)

\* a client that sends a request after it got the response to the one before
SeqStart(r, m) ==
  /\ \A q \in Reqs : q < r => pc[q] = "done"
  /\ Start(r, m)

\* requests that overlap
ConcStart(r, m) ==
  /\ r <= MaxReq
  /\ Start(r, m)

\* the handler of request r calls flash(key, value)
HFlash(r, key, value) ==
  /\ pc[r] = "handler"
  /\ Invoke(r, CallFlash(key, value))

\* the handler of request r calls reflash(opt)
HReflash(r, opt) ==
  /\ pc[r] = "handler"
  /\ Invoke(r, CallReflash(opt))

\* the handler of request r (a form submission) calls flashInputs()
HFlashInputs(r) ==
  /\ pc[r] = "handler"
  /\ method[r] = "POST"
  /\ Invoke(r, CallFlashInputs)

\* the handler of request r calls any of the exported functions
HCall(r, c) ==
  /\ pc[r] = "handler"
  /\ c.op = "flashInputs" => method[r] = "POST"
  /\ Invoke(r, c)

\* code that runs in no handler calls one of the exported functions
RootCall(c) ==
  /\ c \in ApiCalls
  /\ Invoke(Root, c)

\* the handler of request r returns a response with status st
HandlerReturn(r, st) ==
  /\ pc[r] = "handler"
  /\ status' = [status EXCEPT ![r] = st]
  /\ pc' = [pc EXCEPT ![r] = "post"]
  /\ UNCHANGED <<autoReflash, jar, jarFrom, prev, method, reqCookie,
                 formData, current, next, headers, alsStore, log, probe>>

\* the handler of request r throws.  The middleware has no try/finally
\* around  await FLASH_RUNTIME_STORE.run(store, next):  when the framework
\* turns the failure into an error response, next() resolves and the
\* middleware goes on (caught); when the failure propagates, the await
\* rejects and the rest of the middleware is skipped
HandlerThrows(r, caught) ==
  /\ pc[r] = "handler"
  /\ status' = [status EXCEPT ![r] = IF caught THEN 500 ELSE @]
  /\ pc' = [pc EXCEPT ![r] = IF caught THEN "post" ELSE "aborted"]
  /\ UNCHANGED <<autoReflash, jar, jarFrom, prev, method, reqCookie,
                 formData, current, next, headers, alsStore, log, probe>>

\* String.prototype.toUpperCase on a method name
toUpperCase(m) ==
  CASE m = "get" -> "GET"
    [] m = "post" -> "POST"
    [] OTHER -> m

\* auto-reflash on every redirect, whatever the method
AutoReflashes_anyMethod(r) ==
  autoReflash /\ status[r] >= 300 /\ status[r] < 400

\* the condition of honold's auto-reflash, lines 61-64
AutoReflashes(r) ==
  autoReflash /\ status[r] >= 300 /\ status[r] < 400
    /\ toUpperCase(method[r]) = "GET"

\* honold, lines 61-67: auto-reflash, then commit
Finish(r) ==
  /\ pc[r] = "post"
  /\ LET store == StoreOf(r)
         nxt == IF AutoReflashes(r)
                THEN FlashStore_reflash(current[store], next[store], DefaultOpt)
                ELSE next[store]
     IN /\ next' = [next EXCEPT ![store] = nxt]
        /\ headers' = [headers EXCEPT ![r] = commit(nxt, @)]
  /\ pc' = [pc EXCEPT ![r] = "sent"]
  /\ UNCHANGED <<autoReflash, jar, jarFrom, prev, method, status,
                 reqCookie, formData, current, alsStore, log, probe>>

\* the client handles one Set-Cookie header
ApplySetCookie(j, h) ==
  IF h.name # CookieName THEN j
  ELSE IF h.maxAge = "0" THEN NoCookie
  ELSE Cookie(h.value)

RECURSIVE ApplyHeaders(_, _, _)
ApplyHeaders(j, hs, i) ==
  IF i > Len(hs) THEN j ELSE ApplyHeaders(ApplySetCookie(j, hs[i]), hs, i + 1)

\* the client receives the response of request r
Receive(r) ==
  /\ pc[r] = "sent"
  /\ jar' = ApplyHeaders(jar, headers[r], 1)
  /\ jarFrom' = r
  /\ pc' = [pc EXCEPT ![r] = "done"]
  /\ UNCHANGED <<autoReflash, prev, method, status, reqCookie, formData,
                 current, next, headers, alsStore, log, probe>>

\* the arguments of one call of the matcher or of reflash, and its result
Probe(kind, phase, key, filter, cur, nxt, opt) ==
  [kind |-> kind, phase |-> phase, key |-> key, filter |-> filter,
   cur |-> cur, nxt |-> nxt, opt |-> opt, result |-> FALSE, out |-> EmptyFlash]
NoProbe == Probe("none", "none", <<>>, NoArg, EmptyFlash, EmptyFlash, DefaultOpt)

\* the state before the first request, the client holding cookie c
InitWith(c) ==
  /\ autoReflash \in BOOLEAN
  /\ jar = c
  /\ jarFrom = 0
  /\ pc = [r \in Reqs |-> "idle"]
  /\ prev = [r \in Reqs |-> 0]
  /\ method = [r \in Reqs |-> "GET"]
  /\ status = [r \in Reqs |-> 0]
  /\ reqCookie = [r \in Reqs |-> NoCookie]
  /\ formData = [r \in Reqs |-> <<>>]
  /\ current = [r \in Reqs |-> EmptyFlash]
  /\ next = [r \in Reqs |-> EmptyFlash]
  /\ headers = [r \in Reqs |-> <<>>]
  /\ alsStore = [c2 \in Ctx |-> NoStore]
  /\ log = [c2 \in Ctx |-> <<>>]

(***************************************************************************)
(* Spec: one client sends MaxReq requests one after the other.             *)
(***************************************************************************)
Init ==
  /\ InitWith(NoCookie)
  /\ probe = NoProbe

Next ==
  \/ \E r \in Reqs, m \in Methods : SeqStart(r, m)
  \/ \E r \in Reqs, key \in FlashKeys, value \in FlashValues : HFlash(r, key, value)
  \/ \E r \in Reqs, opt \in ReflashOpts : HReflash(r, opt)
  \/ \E r \in Reqs : HFlashInputs(r)
  \/ \E r \in Reqs, st \in Statuses : HandlerReturn(r, st)
  \/ \E r \in Reqs : Finish(r)
  \/ \E r \in Reqs : Receive(r)

Spec == Init /\ [][Next]_vars

(***************************************************************************)
(* SpecConc: GET requests that overlap; the handlers answer with a         *)
(* redirect, so the middleware auto-reflashes when the option is on.       *)
(***************************************************************************)
ValidCookie == Cookie(JsonText(ForgedDoc(TRUE, SampleValues)))

\* the calls the overlapping handlers make
ConcCalls ==
  { CallFlash(ArgStr("error"), StrVal("too short")),
    CallReflash(DefaultOpt),
    CallGetFlash(ArgStr("error")),
    CallOld("name") }

ConcReqs == 1..MaxInFlight

InitConc ==
  /\ InitWith(ValidCookie)
  /\ probe = NoProbe

NextConc ==
  \/ \E r \in ConcReqs : ConcStart(r, "GET")
  \/ \E r \in ConcReqs, c \in ConcCalls : HCall(r, c)
  \/ \E r \in ConcReqs : HandlerReturn(r, 302)
  \/ \E r \in ConcReqs : Finish(r)

SpecConc == InitConc /\ [][NextConc]_vars

(***************************************************************************)
(* SpecScope: one request; its handler and code outside the middleware's   *)
(* run scope call every exported function, before, while and after the     *)
(* handler runs.                                                           *)
(***************************************************************************)
InitScope ==
  /\ InitWith(ValidCookie)
  /\ probe = NoProbe

NextScope ==
  \/ \E m \in Methods : Start(1, m)
  \/ \E c \in ApiCalls : HCall(1, c)
  \/ \E c \in ApiCalls : RootCall(c)
  \/ \E st \in Statuses : HandlerReturn(1, st)
  \/ Finish(1)

SpecScope == InitScope /\ [][NextScope]_vars

(***************************************************************************)
(* SpecStore: one request whose incoming cookie is anything a client can   *)
(* send.                                                                   *)
(***************************************************************************)
InitStore ==
  /\ \E c \in {NoCookie} \cup ForgedCookies : InitWith(c)
  /\ probe = NoProbe

NextStore ==
  \/ \E m \in Methods : Start(1, m)
  \/ \E key \in FlashKeys, value \in FlashValues : HFlash(1, key, value)
  \/ \E opt \in ReflashOpts : HReflash(1, opt)
  \/ HFlashInputs(1)
  \/ \E st \in Statuses : HandlerReturn(1, st)
  \/ Finish(1)

SpecStore == InitStore /\ [][NextStore]_vars

(***************************************************************************)
(* SpecMatch: the key matcher and reflash's filter on drawn arguments.     *)
(***************************************************************************)
Segments == {"ext", "inputs", "error"}

\* the paths of at most n segments
RECURSIVE PathsUpTo(_)
PathsUpTo(n) ==
  IF n = 0 THEN {<<>>}
  ELSE LET shorter == PathsUpTo(n - 1)
       IN shorter \cup {Append(q, sg) : q \in shorter, sg \in Segments}
Paths == PathsUpTo(MaxPath)

\* filters: one segment, one flat path, a list of one or two paths
Filters ==
  {ArgStr(sg) : sg \in Segments}
    \cup {ArgArr(q) : q \in Paths}
    \cup {ArgArr2(<<q>>) : q \in Paths}
    \cup {ArgArr2(<<q1, q2>>) : q1 \in Paths, q2 \in Paths}

\* pick and omit arguments of the probed reflash calls
PickFilters ==
  { ArgArr(<<>>), ArgStr(""), ArgStr("ext"), ArgStr("inputs"), ArgStr("error"),
    ArgArr(<<"ext", "error">>),
    ArgArr2(<< <<"ext", "error">>, <<"inputs">> >>),
    ArgArr2(<< <<>> >>) }

\* containers the probed reflash calls read and write
ProbeEntries ==
  { ForgedEntry(<<"ext", "error">>, StrVal("x")),
    ForgedEntry(<<"ext", "inputs">>, StrVal("y")),
    ForgedEntry(<<"inputs">>, ObjVal(<<>>)) }
ProbeValues ==
  {<<>>} \cup {<<e>> : e \in ProbeEntries}
    \cup {<<e1, e2>> : e1 \in ProbeEntries, e2 \in ProbeEntries}
ProbeQueued == {<<>>, <<ForgedEntry(<<"ext", "queued">>, StrVal("q"))>>}

InitMatch ==
  /\ InitWith(NoCookie)
  /\ autoReflash = TRUE
  /\ \/ \E key \in Paths, filter \in Filters :
          probe = Probe("match", "in", key, filter, EmptyFlash, EmptyFlash, DefaultOpt)
     \/ \E vs \in ProbeValues, valid \in BOOLEAN, q \in ProbeQueued,
           pick \in PickFilters, omit \in PickFilters, append \in BOOLEAN :
          probe = Probe("reflash", "in", <<>>, NoArg,
                        [valid |-> valid, values |-> vs],
                        [valid |-> Len(q) > 0, values |-> q],
                        [append |-> append, omit |-> omit, pick |-> pick])

\* checkKeyAgainstFilters(key, filter) on the drawn arguments
Match ==
  /\ probe.kind = "match" /\ probe.phase = "in"
  /\ probe' = [probe EXCEPT !.phase = "out",
                            !.result = checkKeyAgainstFilters(probe.key, probe.filter)]
  /\ UNCHANGED <<autoReflash, jar, jarFrom, pc, prev, method, status, reqCookie,
                 formData, current, next, headers, alsStore, log>>

\* reflash(opt) on a store holding the drawn containers
Reflash ==
  /\ probe.kind = "reflash" /\ probe.phase = "in"
  /\ probe' = [probe EXCEPT !.phase = "out",
                            !.out = FlashStore_reflash(probe.cur, probe.nxt, probe.opt)]
  /\ UNCHANGED <<autoReflash, jar, jarFrom, pc, prev, method, status, reqCookie,
                 formData, current, next, headers, alsStore, log>>

NextMatch == Match \/ Reflash

SpecMatch == InitMatch /\ [][NextMatch]_vars

(***************************************************************************)
(* SpecAuto: a client that comes with a flash cookie and sends requests    *)
(* one after the other; the handlers answer with statuses on both sides of *)
(* the redirect range.                                                     *)
(***************************************************************************)
\* the first request is answered with a status at an edge of the redirect
\* range, the later ones with 200 or 302
AutoStatuses(r) == IF r = 1 THEN {299, 300, 399, 400} ELSE Statuses

InitAuto ==
  /\ InitWith(ValidCookie)
  /\ probe = NoProbe

NextAuto ==
  \/ \E r \in Reqs, m \in Methods : SeqStart(r, m)
  \/ \E r \in Reqs : HFlash(r, ArgStr("error"), StrVal("too short"))
  \/ \E r \in Reqs, opt \in ReflashOpts : HReflash(r, opt)
  \/ \E r \in Reqs : \E st \in AutoStatuses(r) : HandlerReturn(r, st)
  \/ \E r \in Reqs : Finish(r)
  \/ \E r \in Reqs : Receive(r)

SpecAuto == InitAuto /\ [][NextAuto]_vars

(***************************************************************************)
(* SpecFail: one request whose handler returns or throws.                  *)
(***************************************************************************)
InitFail ==
  /\ InitWith(ValidCookie)
  /\ probe = NoProbe

NextFail ==
  \/ \E m \in Methods : Start(1, m)
  \/ \E key \in FlashKeys, value \in FlashValues : HFlash(1, key, value)
  \/ \E opt \in ReflashOpts : HReflash(1, opt)
  \/ HFlashInputs(1)
  \/ \E st \in Statuses : HandlerReturn(1, st)
  \/ \E caught \in BOOLEAN : HandlerThrows(1, caught)
  \/ Finish(1)

SpecFail == InitFail /\ [][NextFail]_vars

(***************************************************************************)
(* SpecCodec: serializeFormData and deserializeFormData on drawn forms.    *)
(* probe holds the form, the serialized object and the form read back.     *)
(***************************************************************************)
\* field names: two plain names, two array-index names, an inherited name
FieldNames == {"name", "tags", "1", "2", "constructor"}
FieldValues == {"a", "b"}

\* form entries; isString is FALSE for a File or Blob
FormEntries ==
  [name : FieldNames, value : FieldValues, isString : BOOLEAN]

\* the forms of at most n entries
RECURSIVE FormsUpTo(_)
FormsUpTo(n) ==
  IF n = 0 THEN {<<>>}
  ELSE LET shorter == FormsUpTo(n - 1)
       IN shorter \cup {Append(fd, e) : fd \in shorter, e \in FormEntries}
Forms == FormsUpTo(MaxForm)

CodecProbe(phase, fd, threw, data, back) ==
  [kind |-> "codec", phase |-> phase, formData |-> fd, threw |-> threw,
   data |-> data, back |-> back]

InitCodec ==
  /\ InitWith(NoCookie)
  /\ autoReflash = TRUE
  /\ \E fd \in Forms : probe = CodecProbe("in", fd, FALSE, <<>>, <<>>)

\* serializeFormData(formData) on the drawn form
Serialize ==
  /\ probe.kind = "codec" /\ probe.phase = "in"
  /\ LET res == serializeFormData(probe.formData)
     IN probe' = CodecProbe(IF res.threw THEN "threw" ELSE "serialized",
                            probe.formData, res.threw, res.obj, <<>>)
  /\ UNCHANGED <<autoReflash, jar, jarFrom, pc, prev, method, status, reqCookie,
                 formData, current, next, headers, alsStore, log>>

\* deserializeFormData(data) on the serialized object
Deserialize ==
  /\ probe.kind = "codec" /\ probe.phase = "serialized"
  /\ probe' = CodecProbe("back", probe.formData, FALSE, probe.data,
                         deserializeFormData(probe.data).formData)
  /\ UNCHANGED <<autoReflash, jar, jarFrom, pc, prev, method, status, reqCookie,
                 formData, current, next, headers, alsStore, log>>

NextCodec == Serialize \/ Deserialize

SpecCodec == InitCodec /\ [][NextCodec]_vars

(***************************************************************************)
(* SpecInputs: a client submits forms and loads pages one after the other; *)
(* the handlers snapshot the submitted form with flashInputs.              *)
(***************************************************************************)
\* the sample form; fields interleaved; an array-index name submitted after
\* a plain name; a name that object literals inherit
InputForms ==
  { SampleForm,
    << [name |-> "tags", value |-> "a", isString |-> TRUE],
       [name |-> "name", value |-> "Alice", isString |-> TRUE],
       [name |-> "tags", value |-> "b", isString |-> TRUE] >>,
    << [name |-> "name", value |-> "Bob", isString |-> TRUE],
       [name |-> "1", value |-> "a", isString |-> TRUE] >>,
    << [name |-> "constructor", value |-> "a", isString |-> TRUE] >> }

InitInputs ==
  /\ InitWith(NoCookie)
  /\ probe = NoProbe

NextInputs ==
  \/ \E r \in Reqs, fd \in InputForms : SeqSubmit(r, fd)
  \/ \E r \in Reqs : SeqStart(r, "GET")
  \/ \E r \in Reqs : HFlashInputs(r)
  \/ \E r \in Reqs : HFlash(r, ArgStr("inputs"), StrVal("too short"))
  \/ \E r \in Reqs, opt \in ReflashOpts : HReflash(r, opt)
  \/ \E r \in Reqs, st \in Statuses : HandlerReturn(r, st)
  \/ \E r \in Reqs : Finish(r)
  \/ \E r \in Reqs : Receive(r)

SpecInputs == InitInputs /\ [][NextInputs]_vars

(***************************************************************************)
(* SpecTwice: one request on whose context a second FlashStore is built    *)
(* (the middleware registered twice, or new FlashStore(c, name) in a       *)
(* handler).  probe holds the second store's current.                      *)
(***************************************************************************)
\* new FlashStore(c, cookieName) on the context of request r, after the
\* middleware built the first one
SecondStore(r) ==
  /\ pc[r] = "handler" /\ probe.kind = "none"
  /\ LET made == initialize(headers[r], reqCookie[r])
     IN /\ probe' = [kind |-> "store2", phase |-> "built", req |-> r,
                     cur |-> made.flash]
        /\ headers' = [headers EXCEPT ![r] = made.headers]
  /\ UNCHANGED <<autoReflash, jar, jarFrom, pc, prev, method, status, reqCookie,
                 formData, current, next, alsStore, log>>

InitTwice ==
  /\ \E c \in {NoCookie} \cup ForgedCookies : InitWith(c)
  /\ probe = NoProbe

NextTwice ==
  \/ \E m \in Methods : Start(1, m)
  \/ SecondStore(1)
  \/ \E key \in FlashKeys, value \in FlashValues : HFlash(1, key, value)
  \/ \E st \in Statuses : HandlerReturn(1, st)
  \/ Finish(1)

SpecTwice == InitTwice /\ [][NextTwice]_vars

(***************************************************************************)
(* SpecSchema: isFlash and isFlashValue on drawn values.                   *)
(***************************************************************************)
\* values that are no object, and null
NonObjects ==
  {[NullDoc EXCEPT !.t = ty] :
     ty \in {"null", "undefined", "string", "number", "boolean"}}

\* candidates for an element of "values": null, a string, and objects
\* whose key is missing, an array with a number in it, an array of strings
\* or the empty array, without a value property, with one, or with one
\* that is undefined
ElementCandidates ==
  { [t |-> ty, keyArr |-> FALSE, keyStr |-> FALSE, key |-> <<>>,
     hasValue |-> FALSE, value |-> UndefVal] : ty \in {"null", "string"} }
  \cup
  { [t |-> "object", keyArr |-> k[1], keyStr |-> k[2], key |-> k[3],
     hasValue |-> v[1], value |-> v[2]] :
      k \in { <<FALSE, FALSE, <<>> >>, <<TRUE, FALSE, <<>> >>,
              <<TRUE, TRUE, <<"ext", "error">> >>, <<TRUE, TRUE, <<>> >> },
      v \in { <<FALSE, UndefVal>>, <<TRUE, UndefVal>>, <<TRUE, StrVal("x")>> } }

\* the lists of at most n element candidates
RECURSIVE ElementsUpTo(_)
ElementsUpTo(n) ==
  IF n = 0 THEN {<<>>}
  ELSE LET shorter == ElementsUpTo(n - 1)
       IN shorter \cup {Append(q, e) : q \in shorter, e \in ElementCandidates}

\* candidates for isFlash: non-objects, an array, and objects whose valid
\* is missing, a boolean or a string and whose values is missing or not an
\* array, or an array of element candidates
FlashCandidates ==
  NonObjects
  \cup {[NullDoc EXCEPT !.t = "array"]}
  \cup { [t |-> "object", validT |-> vt, validV |-> vv, valuesArr |-> FALSE,
          values |-> <<>>] :
           vt \in {"undefined", "boolean", "string"}, vv \in BOOLEAN }
  \cup { [t |-> "object", validT |-> vt, validV |-> FALSE, valuesArr |-> TRUE,
          values |-> vs] :
           vt \in {"undefined", "boolean", "string"}, vs \in ElementsUpTo(MaxElems) }

InitSchema ==
  /\ InitWith(NoCookie)
  /\ autoReflash = TRUE
  /\ \E d \in FlashCandidates :
       probe = [kind |-> "schema", phase |-> "in", doc |-> d,
                result |-> FALSE, each |-> <<>>]

\* isFlash(value) on the drawn value, and isFlashValue on each of its elements
CheckSchema ==
  /\ probe.kind = "schema" /\ probe.phase = "in"
  /\ probe' = [probe EXCEPT
                 !.phase = "out",
                 !.result = isFlash(probe.doc),
                 !.each = [i \in 1..Len(probe.doc.values) |->
                             isFlashValue(probe.doc.values[i])]]
  /\ UNCHANGED <<autoReflash, jar, jarFrom, pc, prev, method, status, reqCookie,
                 formData, current, next, headers, alsStore, log>>

NextSchema == CheckSchema

SpecSchema == InitSchema /\ [][NextSchema]_vars

(***************************************************************************)
(* SpecGet: FlashStore.get on drawn containers and filters.  probe holds   *)
(* the container, the filter (or none) and what get returned.              *)
(***************************************************************************)
\* keys of the stored entries: user keys, the snapshot key, and keys no
\* method of the store writes
GetKeys ==
  { <<>>, <<"ext">>, <<"ext", "error">>, <<"ext", "error", "inputs">>,
    <<"ext", "inputs">>, <<"inputs">>, <<"error">> }

\* the value of the entry at position i: a different one at each position
GetValueAt(i) ==
  CASE i = 1 -> StrVal("a")
    [] i = 2 -> StrVal("b")
    [] OTHER -> StrVal("c")

\* containers of at most three entries
GetContainers ==
  LET keyLists == {<<>>} \cup {<<k>> : k \in GetKeys}
                    \cup {<<k1, k2>> : k1 \in GetKeys, k2 \in GetKeys}
                    \cup {<<k1, k2, k3>> : k1 \in GetKeys, k2 \in GetKeys, k3 \in GetKeys}
  IN { [valid |-> v,
        values |-> [i \in 1..Len(ks) |-> ForgedEntry(ks[i], GetValueAt(i))]] :
         v \in BOOLEAN, ks \in keyLists }

\* keyFilter arguments: one segment (the empty string too) or one flat path
GetFilters ==
  {ArgStr(sg) : sg \in Segments \cup {""}} \cup {ArgArr(q) : q \in Paths}

GetProbe(phase, cur, hasFilter, keyFilter, list, whole) ==
  [kind |-> "get", phase |-> phase, cur |-> cur, hasFilter |-> hasFilter,
   keyFilter |-> keyFilter, list |-> list, whole |-> whole]

InitGet ==
  /\ InitWith(NoCookie)
  /\ autoReflash = TRUE
  /\ \E cur \in GetContainers :
       \/ probe = GetProbe("in", cur, FALSE, NoArg, <<>>, EmptyFlash)
       \/ \E kf \in GetFilters : probe = GetProbe("in", cur, TRUE, kf, <<>>, EmptyFlash)

\* get() or get(keyFilter) on a store holding the drawn container
Get ==
  /\ probe.kind = "get" /\ probe.phase = "in"
  /\ probe' = IF probe.hasFilter
              THEN [probe EXCEPT !.phase = "out",
                                 !.list = FlashStore_get(probe.cur, probe.keyFilter)]
              ELSE [probe EXCEPT !.phase = "out",
                                 !.whole = FlashStore_getAll(probe.cur)]
  /\ UNCHANGED <<autoReflash, jar, jarFrom, pc, prev, method, status, reqCookie,
                 formData, current, next, headers, alsStore, log>>

NextGet == Get

SpecGet == InitGet /\ [][NextGet]_vars

(***************************************************************************)
(* SpecHandoff: a client sends requests one after the other and follows    *)
(* the redirects it gets; the handlers flash values of every JavaScript    *)
(* type the signature of flash admits at run time, JSON-representable or   *)
(* not.                                                                    *)
(***************************************************************************)
\* a string, null, a finite number, and two values JSON cannot represent
HandoffValues ==
  {StrVal("too short"), NullVal, NumVal("1"), NumVal("NaN"), UndefVal}

InitHandoff ==
  /\ InitWith(NoCookie)
  /\ probe = NoProbe

NextHandoff ==
  \/ \E r \in Reqs, m \in Methods : SeqStart(r, m)
  \/ \E r \in Reqs, value \in HandoffValues : HFlash(r, ArgStr("error"), value)
  \/ \E r \in Reqs : HReflash(r, DefaultOpt)
  \/ \E r \in Reqs : HFlashInputs(r)
  \/ \E r \in Reqs : HandlerReturn(r, 302)
  \/ \E r \in Reqs : Finish(r)
  \/ \E r \in Reqs : Receive(r)

SpecHandoff == InitHandoff /\ [][NextHandoff]_vars

(***************************************************************************)
(* Properties.                                                             *)
(***************************************************************************)
Range(sq) == {sq[i] : i \in 1..Len(sq)}

\* the segments a key or filter argument names
KeySegs(k) == IF k.form = "str" THEN <<k.s>> ELSE k.p

\* f is a positional prefix of k
IsPrefix(f, k) == Len(f) <= Len(k) /\ SubSeq(k, 1, Len(f)) = f

Started(r) == pc[r] # "idle"

\* request n reflashed nothing: neither its handler nor the middleware did
NoReflash(n) ==
  /\ \A i \in 1..Len(log[n]) : log[n][i].op # "reflash"
  /\ ~AutoReflashes(n)

\* call i of request n is a flash whose entry the request later discards with
\* reflash({append: false})
Discarded(n, i) ==
  \E j \in (i + 1)..Len(log[n]) : log[n][j].op = "reflash" /\ ~log[n][j].opt.append

\* the values request n flashed itself under keys that filter k selects
FlashedUnder(n, k) ==
  LET hit == SelectSeq(log[n],
               LAMBDA c : c.op = "flash" /\ IsPrefix(KeySegs(k), KeySegs(c.key)))
  IN [i \in 1..Len(hit) |-> hit[i].value]

\* what get(k) returns in N+2 is what N+1 flashed itself, when N+1 reflashed
\* nothing
NotReplayed(r) ==
  (prev[r] # 0 /\ NoReflash(prev[r]))
    => \A k \in FlashKeys : FlashStore_get(current[r], k) = FlashedUnder(prev[r], k)

\* C1 as stated: across successive requests, every value flashed in request
\* N is returned by get(k) in request N+1, and get(k) in request N+2 returns
\* nothing of it when N+1 reflashed nothing.
C1_FlashedReadableNextOnly_AsStated ==
  \A r \in Reqs :
    Started(r) =>
      /\ prev[r] # 0 =>
           \A i \in 1..Len(log[prev[r]]) :
             log[prev[r]][i].op = "flash" =>
               log[prev[r]][i].value
                 \in Range(FlashStore_get(current[r], log[prev[r]][i].key))
      /\ NotReplayed(r)

\* C1 (amended): across successive requests, a value flashed in request N
\* that N does not discard afterwards with reflash({append: false}) is
\* returned by get(k) in request N+1, and get(k) in request N+2 returns
\* nothing of it when N+1 reflashed nothing.
C1_FlashedReadableNextOnly ==
  \A r \in Reqs :
    Started(r) =>
      /\ prev[r] # 0 =>
           \A i \in 1..Len(log[prev[r]]) :
             (log[prev[r]][i].op = "flash" /\ ~Discarded(prev[r], i)) =>
               log[prev[r]][i].value
                 \in Range(FlashStore_get(current[r], log[prev[r]][i].key))
      /\ NotReplayed(r)

\* request 1 flashed "too short", request 2 read it and reflashed nothing,
\* request 3 no longer reads it
C1_Witness ==
  /\ pc[3] = "handler" /\ prev[3] = 2 /\ prev[2] = 1
  /\ Len(log[1]) = 1 /\ log[1][1].op = "flash" /\ log[1][1].key = ArgStr("error")
  /\ FlashStore_get(current[2], ArgStr("error")) = <<StrVal("too short")>>
  /\ NoReflash(2)
  /\ FlashStore_get(current[3], ArgStr("error")) = <<>>

\* the Set-Cookie header that carries container f
FlashCookieHeader(f) ==
  [name |-> CookieName, value |-> JSONstringify(f), maxAge |-> "unset"]

\* C2: commit() leaves the response's cookies as they are when next.valid is
\* false; when next.valid is true it adds exactly one cookie, under the
\* configured name, whose value is the serialized next container.
C2_CommitGating ==
  [][\A r \in Reqs :
       (pc[r] = "post" /\ pc'[r] = "sent") =>
         IF next'[StoreOf(r)].valid
         THEN headers'[r] = Append(headers[r], FlashCookieHeader(next'[StoreOf(r)]))
         ELSE headers'[r] = headers[r]]_vars

\* request 1 committed an invalid next and wrote nothing, request 2 committed
\* a valid next and wrote one cookie after the deletion header
C2_Witness ==
  /\ pc[1] = "done" /\ ~next[1].valid /\ Len(headers[1]) = 1
  /\ pc[2] = "sent" /\ next[2].valid /\ Len(headers[2]) = 2
  /\ headers[2][2].name = CookieName /\ headers[2][2].value = JSONstringify(next[2])

\* C3 as stated: a value flashed with flash(k, v) is returned by get(k)
\* within the request that flashed it.
C3_FlashedReadableSameRequest_AsStated ==
  \A r \in Reqs :
    pc[r] = "handler" =>
      \A i \in 1..Len(log[r]) :
        log[r][i].op = "flash" =>
          log[r][i].value \in Range(getFlash(r, log[r][i].key).ret.list)

\* C3 (amended): flash(k, v) does not change what get(k) returns within the
\* request that flashed it: get(k) returns what the incoming cookie held, and
\* in a store built from no incoming cookie get("error") returns the empty
\* list after flash("error", "too short").
C3_FlashedNotReadableSameRequest ==
  \A r \in Reqs :
    pc[r] = "handler" =>
      /\ \A k \in FlashKeys :
           getFlash(r, k).ret.list
             = FlashStore_get(initialize(<<>>, reqCookie[r]).flash, k)
      /\ ~reqCookie[r].present => getFlash(r, ArgStr("error")).ret.list = <<>>

\* a store built from no cookie flashed "too short" under "error" and still
\* reads nothing under "error"
C3_Witness ==
  /\ pc[1] = "handler" /\ ~reqCookie[1].present
  /\ Len(log[1]) = 1 /\ log[1][1].op = "flash"
  /\ log[1][1].key = ArgStr("error") /\ log[1][1].value = StrVal("too short")
  /\ getFlash(1, ArgStr("error")).ret.list = <<>>

\* the step is a call of `op` by the handler of request r
Calls(r, op) ==
  /\ Len(log'[r]) = Len(log[r]) + 1
  /\ log'[r][Len(log'[r])].op = op

\* the cookie text encoding
\* {valid: true, values: [{key: ["ext", "error"], value: "too short"}]}
TooShortCookie ==
  JsonText([t |-> "object", validT |-> "boolean", validV |-> TRUE, valuesArr |-> TRUE,
            values |-> << [t |-> "object", keyArr |-> TRUE, keyStr |-> TRUE,
                           key |-> <<"ext", "error">>, hasValue |-> TRUE,
                           value |-> StrVal("too short")] >>])

\* C4: flash(key, value) appends exactly one entry {key: ["ext", ...key],
\* value} at the end of next.values, keeps the entries queued before in
\* place and sets next.valid; a fresh store that flashed ("error", "too
\* short") commits the cookie {valid: true, values: [{key: ["ext",
\* "error"], value: "too short"}]}.
C4_FlashAppends ==
  [][\A r \in Reqs :
       /\ Calls(r, "flash") =>
            LET c == log'[r][Len(log'[r])]
            IN next'[StoreOf(r)]
                 = [valid |-> TRUE,
                    values |-> next[StoreOf(r)].values
                                 \o <<[key |-> <<"ext">> \o KeySegs(c.key),
                                       value |-> c.value]>>]
       /\ ( /\ pc[r] = "post" /\ pc'[r] = "sent"
            /\ ~reqCookie[r].present
            /\ Len(log[r]) = 1 /\ log[r][1].op = "flash"
            /\ log[r][1].key = ArgStr("error")
            /\ log[r][1].value = StrVal("too short") )
            => /\ Len(headers'[r]) = Len(headers[r]) + 1
               /\ headers'[r][Len(headers'[r])].value = TooShortCookie]_vars

\* a fresh store flashed twice, keeping the first entry in front of the
\* second, and committed both
C4_Witness ==
  /\ pc[1] = "sent" /\ ~reqCookie[1].present
  /\ Len(log[1]) = 2 /\ log[1][1].op = "flash" /\ log[1][2].op = "flash"
  /\ log[1][1].key # log[1][2].key
  /\ Len(next[1].values) = 2
  /\ next[1].values[1].key = <<"ext">> \o KeySegs(log[1][1].key)
  /\ next[1].values[2].key = <<"ext">> \o KeySegs(log[1][2].key)
  /\ Len(headers[1]) = 2

\* what call c of a handler does to the `next` of the handler's own store
OwnEffect(cur, nxt, fd, c) ==
  CASE c.op = "flash" -> FlashStore_flash(nxt, c.key, c.value)
    [] c.op = "reflash" -> FlashStore_reflash(cur, nxt, c.opt)
    [] c.op = "flashInputs" -> FlashStore_flashInputs(nxt, fd)
    [] OTHER -> nxt

RECURSIVE Replay(_, _, _, _, _)
Replay(cur, nxt, fd, lg, i) ==
  IF i > Len(lg) THEN nxt
  ELSE Replay(cur, OwnEffect(cur, nxt, fd, lg[i]), fd, lg, i + 1)

\* what request r queued: its own calls applied, in order, to a fresh store
\* built from its own cookie
Queued(r) ==
  Replay(initialize(<<>>, reqCookie[r]).flash, EmptyFlash, formData[r], log[r], 1)

\* what request r commits: what it queued, after the middleware's auto-reflash
Committed(r) ==
  IF AutoReflashes(r)
  THEN FlashStore_reflash(initialize(<<>>, reqCookie[r]).flash, Queued(r), DefaultOpt)
  ELSE Queued(r)

\* every store holds what its own request did and nothing else
OwnStateOnly(r) ==
  /\ pc[r] = "idle" => next[StoreOf(r)] = EmptyFlash /\ headers[r] = <<>>
  /\ Started(r) => current[StoreOf(r)] = initialize(<<>>, reqCookie[r]).flash
  /\ pc[r] \in {"handler", "post"} =>
       /\ next[StoreOf(r)] = Queued(r)
       /\ headers[r] = initialize(<<>>, reqCookie[r]).headers
  /\ pc[r] \in {"sent", "done"} =>
       /\ next[StoreOf(r)] = Committed(r)
       /\ headers[r] = commit(Committed(r), initialize(<<>>, reqCookie[r]).headers)

\* C5: when requests interleave, every call of flash, reflash, getFlash and
\* old made in the handler of a request gets the store of that request and
\* never the store of another request in flight, and the request's commit
\* writes what that request queued and nothing else.
C5_ContextIsolation ==
  \A r \in Reqs :
    /\ \A i \in 1..Len(log[r]) : ~log[r][i].threw /\ log[r][i].store = StoreOf(r)
    /\ pc[r] = "handler" =>
         \A c \in ConcCalls :
           /\ Result(r, c).store = StoreOf(r)
           /\ \A q \in Reqs \ {r} : Result(r, c).next[StoreOf(q)] = next[StoreOf(q)]
           /\ c.op = "getFlash" =>
                Result(r, c).ret.list
                  = FlashStore_get(initialize(<<>>, reqCookie[r]).flash, c.key)
    /\ OwnStateOnly(r)

\* two requests overlapped, each queued something while the other's handler
\* was running, and they committed different cookies
C5_Witness ==
  /\ pc[1] = "sent" /\ pc[2] = "sent"
  /\ Len(log[1]) = 1 /\ log[1][1].op = "flash" /\ log[1][1].others = 1
  /\ Len(log[2]) = 1 /\ log[2][1].op = "reflash" /\ log[2][1].others = 1
  /\ Len(headers[1]) = 2 /\ Len(headers[2]) = 2
  /\ headers[1][2] # headers[2][2]

\* C6: called where no FlashStore is bound (outside the middleware's run
\* scope, before, while or after a request is handled), each of flash,
\* flashInputs, reflash, getFlash, old, oldChecked and oldSelected throws and
\* changes no store; called in a handler, none of them throws.
C6_ScopeViolation ==
  /\ \A i \in 1..Len(log[Root]) : log[Root][i].threw /\ log[Root][i].store = NoStore
  /\ \A c \in ApiCalls : Result(Root, c).threw /\ Result(Root, c).next = next
  /\ \A r \in Reqs :
       /\ OwnStateOnly(r)
       /\ \A i \in 1..Len(log[r]) : ~log[r][i].threw
       /\ pc[r] = "handler" => \A c \in ApiCalls : ~Result(r, c).threw

\* code outside the scope called an exported function while the handler was
\* running and again after the response was committed; the handler's own
\* call went through
C6_Witness ==
  /\ pc[1] = "sent"
  /\ Len(log[1]) = 1 /\ ~log[1][1].threw /\ log[1][1].op = "flash"
  /\ Len(log[Root]) = 1 /\ log[Root][1].threw /\ log[Root][1].others = 1
  /\ log[Root][1].op = "reflash"
  /\ Len(next[1].values) = 1

\* the cookie is absent, is not parseable as JSON, or fails the schema check
Malformed(c) ==
  \/ ~c.present
  \/ JSONparse(c.text).threw
  \/ ~isFlash(JSONparse(c.text).doc)

\* C7: when the incoming cookie is absent, is not parseable as JSON or
\* parses to a value that fails the Flash schema check, the store is built
\* all the same, current is exactly {valid: false, values: []} and get()
\* returns that container.
C7_MalformedCookieIsEmpty ==
  \A r \in Reqs :
    (Started(r) /\ Malformed(reqCookie[r])) =>
      /\ current[StoreOf(r)] = [valid |-> FALSE, values |-> <<>>]
      /\ FlashStore_getAll(current[StoreOf(r)]) = [valid |-> FALSE, values |-> <<>>]

\* a request came with a cookie that is JSON, holds values and fails the
\* schema check; its handler ran on an empty current
C7_Witness ==
  /\ pc[1] = "post" /\ reqCookie[1].present
  /\ reqCookie[1].text.kind = "json" /\ reqCookie[1].text.doc.t = "object"
  /\ Len(reqCookie[1].text.doc.values) > 0
  /\ ~isFlash(reqCookie[1].text.doc)
  /\ Len(log[1]) > 0
  /\ current[1] = EmptyFlash

\* C8 as stated: a current container with valid = false is empty for every
\* read: get(filter) returns the empty list for every filter and getInputs()
\* returns no value.
C8_InvalidReadsEmpty ==
  \A r \in Reqs :
    (Started(r) /\ ~current[StoreOf(r)].valid) =>
      /\ \A k \in FlashKeys : FlashStore_get(current[StoreOf(r)], k) = <<>>
      /\ ~getInputs(current[StoreOf(r)]).some

\* the paths a filter argument names: a string is one path of one segment,
\* a flat list is one path, the empty list is no path, a list of lists is
\* its elements
FilterPaths(a) ==
  IF a.form = "str" THEN {<<a.s>>}
  ELSE IF a.form = "arr2" THEN Range(a.ps)
  ELSE IF a.p = <<>> THEN {}
  ELSE {a.p}

\* an empty pick or omit argument
IsEmptyArg(a) == a \in {ArgStr(""), ArgArr(<<>>)}

\* C9: the key matcher returns true iff one of the filter paths is a
\* positional prefix of the key; a filter path longer than the key or
\* different at a segment does not match.
C9_PrefixFilter ==
  (probe.kind = "match" /\ probe.phase = "out") =>
    probe.result = (\E f \in FilterPaths(probe.filter) : IsPrefix(f, probe.key))

\* of two filter paths the first differs from the key at its second segment
\* and the second is a prefix of it
C9_Witness ==
  /\ probe.kind = "match" /\ probe.phase = "out"
  /\ probe.key = <<"ext", "inputs">>
  /\ probe.filter = ArgArr2(<< <<"ext", "error">>, <<"ext">> >>)
  /\ probe.result

\* the entries reflash carried over from current
Carried ==
  IF probe.opt.append
  THEN SubSeq(probe.out.values, Len(probe.nxt.values) + 1, Len(probe.out.values))
  ELSE probe.out.values

\* C10: reflash({pick, omit}) carries an entry of current.values into next
\* iff (pick is empty or the entry's key matches a pick path) and (omit is
\* empty or the entry's key matches no omit path), for pick and omit given
\* as one segment, one flat path or a list of paths.
C10_PickOmit ==
  (probe.kind = "reflash" /\ probe.phase = "out") =>
    Carried =
      SelectSeq(probe.cur.values,
        LAMBDA e :
          /\ IsEmptyArg(probe.opt.pick)
               \/ \E f \in FilterPaths(probe.opt.pick) : IsPrefix(f, e.key)
          /\ IsEmptyArg(probe.opt.omit)
               \/ ~\E f \in FilterPaths(probe.opt.omit) : IsPrefix(f, e.key))

\* pick names "ext", omit names ext/error: of two picked entries the omitted
\* one is dropped
C10_Witness ==
  /\ probe.kind = "reflash" /\ probe.phase = "out"
  /\ probe.opt.pick = ArgStr("ext")
  /\ probe.opt.omit = ArgArr(<<"ext", "error">>)
  /\ probe.cur.values = << ForgedEntry(<<"ext", "error">>, StrVal("x")),
                           ForgedEntry(<<"ext", "inputs">>, StrVal("y")) >>
  /\ Carried = << ForgedEntry(<<"ext", "inputs">>, StrVal("y")) >>

\* requests a..b are a chain of GET requests each answered by a redirect,
\* and the client has sent the request after the chain
RedirectChain(a, b) ==
  /\ a <= b /\ b < MaxReq
  /\ \A q \in a..b :
       /\ pc[q] = "done" /\ method[q] = "GET"
       /\ status[q] >= 300 /\ status[q] <= 399
  /\ Started(b + 1) /\ prev[b + 1] = b

\* C11: when the handler has completed the middleware reflashes the whole
\* current container, after what the handler queued, iff autoReflash is on
\* and the status is in 300..399 and the method is GET, and otherwise
\* commits next as the handler left it; so what a chain of redirected GET
\* requests came in with is readable in the request that follows the chain.
C11_AutoReflashPolicy ==
  /\ [][\A r \in Reqs :
          (pc[r] = "post" /\ pc'[r] = "sent") =>
            /\ next'[StoreOf(r)]
                 = IF autoReflash /\ status[r] \in 300..399 /\ method[r] = "GET"
                   THEN [valid |-> TRUE,
                         values |-> next[StoreOf(r)].values
                                      \o current[StoreOf(r)].values]
                   ELSE next[StoreOf(r)]
            /\ headers'[r] = commit(next'[StoreOf(r)], headers[r])]_vars
  /\ [](autoReflash =>
         \A a \in Reqs, b \in Reqs :
           RedirectChain(a, b) =>
             /\ Range(current[StoreOf(a)].values)
                  \subseteq Range(current[StoreOf(b + 1)].values)
             /\ \A k \in FlashKeys \cup {ArgStr("error")} :
                  Range(FlashStore_get(current[StoreOf(a)], k))
                    \subseteq Range(FlashStore_get(current[StoreOf(b + 1)], k)))

\* two redirected GET requests, then a request that reads what the first
\* one came in with
C11_Witness ==
  /\ autoReflash /\ RedirectChain(1, 2)
  /\ status[1] = 399 /\ status[2] = 302
  /\ pc[3] = "handler"
  /\ FlashStore_get(current[1], ArgStr("error")) = <<StrVal("x")>>
  /\ StrVal("x") \in Range(FlashStore_get(current[3], ArgStr("error")))

\* the middleware of request r has ended
Ended(r) == pc[r] \in {"sent", "done", "aborted"}

\* the number of commit() calls request r made
CommitCalls(r) == IF pc[r] \in {"sent", "done"} THEN 1 ELSE 0

\* C12 as stated: for every request the middleware handles, commit() is
\* called exactly once after the handler finished, whether the handler
\* returned or failed, and what was flashed before a failure is written.
C12_CommitOncePerRequest ==
  \A r \in Reqs :
    Ended(r) =>
      /\ CommitCalls(r) = 1
      /\ next[StoreOf(r)].valid =>
           headers[r][Len(headers[r])] = FlashCookieHeader(next[StoreOf(r)])

\* the string-valued entries of a form, in submission order
StringEntries(fd) == SelectSeq(fd, LAMBDA e : e.isString)

\* the names of a list of entries in order of first appearance
RECURSIVE FieldOrder(_, _, _)
FieldOrder(fd, i, seen) ==
  IF i > Len(fd) THEN seen
  ELSE FieldOrder(fd, i + 1,
         IF fd[i].name \in Range(seen) THEN seen ELSE Append(seen, fd[i].name))

\* C13 as stated: for every form x, deserializeFormData(serializeFormData(x))
\* is x restricted to its string entries: the same fields in the same order,
\* each with the same values in the same order.  (Read in favour of the
\* code: entries of different names may be regrouped by name.)
C13_FormDataRoundTrip ==
  (probe.kind = "codec" /\ probe.phase \in {"threw", "back"}) =>
    LET x == StringEntries(probe.formData)
    IN /\ probe.phase = "back"
       /\ FieldOrder(probe.back, 1, <<>>) = FieldOrder(x, 1, <<>>)
       /\ \A n \in FieldNames : getAll(probe.back, n) = getAll(x, n)
       /\ \A i \in 1..Len(probe.back) : probe.back[i].isString

\* C14 as stated: serializeFormData maps every name that has a string value
\* to the list of its string values in submission order, skips non-string
\* entries without error, makes no key for a name with only non-string
\* values, and gives the empty mapping for the empty form.
C14_SerializeGroups ==
  (probe.kind = "codec" /\ probe.phase \in {"threw", "serialized"}) =>
    LET x == StringEntries(probe.formData)
    IN /\ probe.phase = "serialized"
       /\ {probe.data[j].name : j \in 1..Len(probe.data)}
            = {x[i].name : i \in 1..Len(x)}
       /\ \A j \in 1..Len(probe.data) :
            /\ probe.data[j].vals = getAll(x, probe.data[j].name)
            /\ \A j2 \in 1..Len(probe.data) :
                 probe.data[j2].name = probe.data[j].name => j2 = j

\* request m called flashInputs() exactly once
FlashedInputsOnce(m) ==
  Cardinality({i \in 1..Len(log[m]) : log[m][i].op = "flashInputs"}) = 1

\* the response of request m set the flash cookie
CookieCommitted(m) ==
  /\ pc[m] \in {"sent", "done"}
  /\ Len(headers[m]) > 0
  /\ headers[m][Len(headers[m])].maxAge = "unset"

\* C15 as stated: when request N submitted string fields, called
\* flashInputs() once and committed its cookie, getInputs() in request N+1
\* yields a form in which getAll(name) is, for every submitted name, the
\* list of the values submitted under it, in order.
C15_OldInputsRoundTrip ==
  \A n \in Reqs :
    (/\ Started(n) /\ prev[n] \in Reqs
     /\ method[prev[n]] = "POST"
     /\ FlashedInputsOnce(prev[n])
     /\ CookieCommitted(prev[n])) =>
      LET x == StringEntries(formData[prev[n]])
          got == getInputs(current[StoreOf(n)])
      IN /\ got.some
         /\ \A i \in 1..Len(x) :
              getAll(got.formData, x[i].name) = getAll(x, x[i].name)

\* the two kinds of entry: a snapshot of the inputs is the object that
\* flashInputs stored, a user flash is a value given to flash
IsSnapshot(e) == e.value.t = "obj"
IsUserFlash(e) == e.value.t = "str"

\* the filter, given as pick to reflash, selects entry e
Selects(filter, e) ==
  filterFlashValues(<<e>>, filter, ArgArr(<<>>)) = <<e>>

\* the filter selects a user flash and a snapshot of container f
SelectsBoth(filter, f) ==
  \E i \in 1..Len(f.values), j \in 1..Len(f.values) :
    /\ IsUserFlash(f.values[i]) /\ IsSnapshot(f.values[j])
    /\ Selects(filter, f.values[i]) /\ Selects(filter, f.values[j])

\* user flashes are under "ext", snapshots under the key ["inputs"]
Namespaced(f) ==
  \A i \in 1..Len(f.values) :
    LET e == f.values[i]
    IN /\ IsUserFlash(e) => (Len(e.key) >= 1 /\ e.key[1] = "ext")
       /\ IsSnapshot(e) => e.key = <<"inputs">>

\* what get and getInputs of request n return keeps the two kinds apart
ReadsApart(n) ==
  LET cur == current[StoreOf(n)]
      snaps == SelectSeq(cur.values, IsSnapshot)
      users == SelectSeq(cur.values, LAMBDA e : IsUserFlash(e) /\ Len(e.key) = 2
                                                  /\ e.key[2] = "inputs")
      got == getInputs(cur)
  IN /\ got.some = (cur.valid /\ snaps # <<>>)
     /\ got.some => got.formData = deserializeFormData(snaps[1].value.o).formData
     /\ FlashStore_get(cur, ArgStr("inputs"))
          = [i \in 1..Len(users) |-> users[i].value]

\* C16 as stated: user flashes are stored under "ext" and snapshots of the
\* inputs under ["inputs"]; flash("inputs", x) does not collide with the
\* snapshot, which getInputs() returns in the next request while
\* get("inputs") returns [x]; and no filter a caller gives (the empty
\* filter, which means no restriction, aside) selects both kinds of entry.
C16_NamespaceIsolation ==
  \A n \in Reqs :
    Started(n) =>
      /\ Namespaced(current[StoreOf(n)]) /\ Namespaced(next[StoreOf(n)])
      /\ ReadsApart(n)
      /\ \A filter \in Filters :
           JsLength(filter) > 0 => ~SelectsBoth(filter, current[StoreOf(n)])

\* C17 as stated: once a FlashStore has consumed the incoming flash cookie,
\* a later read of the cookie in the same request finds no value: a second
\* FlashStore built on the same context has an empty current, so a request
\* never reads the same flashed values twice.
C17_CookieConsumedOnce ==
  probe.kind = "store2" =>
    /\ probe.cur = EmptyFlash
    /\ \A k \in FlashKeys \cup {ArgStr("error")} : FlashStore_get(probe.cur, k) = <<>>

\* a non-null object (arrays are objects)
NonNullObject(v) == v.t \in {"object", "array"}

\* an object whose key is an array of strings and that has a value property
WellFormedValue(e) ==
  NonNullObject(e) /\ e.keyArr /\ e.keyStr /\ e.hasValue

\* C18: isFlash(v) is true iff v is a non-null object whose valid is a
\* boolean and whose values is an array of elements that pass isFlashValue;
\* isFlashValue(e) is true iff e is a non-null object whose key is an array
\* of strings (the empty array included) and that has a value property
\* (even an undefined one).
C18_SchemaCheck ==
  (probe.kind = "schema" /\ probe.phase = "out") =>
    /\ probe.result
         = (/\ NonNullObject(probe.doc)
            /\ probe.doc.validT = "boolean"
            /\ probe.doc.valuesArr
            /\ \A i \in 1..Len(probe.doc.values) : probe.each[i])
    /\ \A i \in 1..Len(probe.doc.values) :
         probe.each[i] = WellFormedValue(probe.doc.values[i])

\* accepted: valid is a boolean and the elements are an entry with the empty
\* key and an entry whose value property is undefined
C18_Witness ==
  /\ probe.kind = "schema" /\ probe.phase = "out" /\ probe.result
  /\ Len(probe.doc.values) = 2
  /\ probe.doc.values[1].key = <<>> /\ probe.doc.values[1].value = StrVal("x")
  /\ probe.doc.values[2].key = <<"ext", "error">>
  /\ probe.doc.values[2].value = UndefVal

\* the step is a call of flash, flashInputs or reflash by request r
WriteCall(r) ==
  \E op \in {"flash", "flashInputs", "reflash"} : Calls(r, op)

\* C19: flash, flashInputs and reflash change only next: after any sequence
\* of them current, and so what get and getInputs return, is as right
\* after construction; nothing of the flash payload is in the response's
\* cookies before commit() runs, and a request aborted before commit
\* writes none of its flash and reflash calls.
C19_WritesOnlyNext ==
  /\ [][\A r \in Reqs :
          WriteCall(r) =>
            /\ current' = current /\ headers' = headers /\ jar' = jar
            /\ \A q \in Reqs \ {r} : next'[StoreOf(q)] = next[StoreOf(q)]
            /\ \A k \in FlashKeys \cup {ArgStr("error")} :
                 FlashStore_get(current'[StoreOf(r)], k)
                   = FlashStore_get(current[StoreOf(r)], k)
            /\ getInputs(current'[StoreOf(r)]) = getInputs(current[StoreOf(r)])]_vars
  /\ [](\A r \in Reqs :
          pc[r] \in {"handler", "post", "aborted"} =>
            /\ current[StoreOf(r)] = initialize(<<>>, reqCookie[r]).flash
            /\ headers[r] = initialize(<<>>, reqCookie[r]).headers
            /\ \A i \in 1..Len(headers[r]) : headers[r][i].maxAge = "0")

\* a request flashed, reflashed and was aborted: next holds the payload and
\* the response only asks to drop the cookie
C19_Witness ==
  /\ pc[1] = "aborted"
  /\ Len(log[1]) = 2 /\ log[1][1].op = "flash" /\ log[1][2].op = "reflash"
  /\ next[1].valid /\ Len(next[1].values) = 3
  /\ current[1] = AsFlash(ValidCookie.text.doc)
  /\ Len(headers[1]) = 1 /\ headers[1][1].maxAge = "0"

\* C20 as stated: whatever the incoming cookie holds, also when it passes
\* the schema check and its ["inputs"] entry is no mapping from names to
\* lists of strings, getInputs(), old, oldChecked and oldSelected return a
\* form or no value and never raise.
C20_InputsNeverRaise ==
  \A r \in Reqs :
    pc[r] = "handler" =>
      /\ ~getInputs(current[StoreOf(r)]).threw
      /\ ~old(r, "name").threw
      /\ ~oldChecked(r, "name").threw
      /\ ~oldSelected(r, "name", "a").threw

Survives(opt, e) ==
  /\ IsEmptyArg(opt.pick) \/ \E f \in FilterPaths(opt.pick) : IsPrefix(f, e.key)
  /\ IsEmptyArg(opt.omit) \/ ~\E f \in FilterPaths(opt.omit) : IsPrefix(f, e.key)

\* C22: with append = true (the default) reflash makes next.values the
\* values queued before followed by the surviving entries of current; with
\* append = false it makes them the surviving entries alone and drops what
\* was queued; the survivors keep their order in current and each is added
\* once per call.
C22_ReflashAppend ==
  (probe.kind = "reflash" /\ probe.phase = "out") =>
    LET queued == probe.nxt.values
        out == probe.out.values
        kept == IF probe.opt.append THEN Len(queued) ELSE 0
        tail == SubSeq(out, kept + 1, Len(out))
    IN /\ Len(out) >= kept
       /\ SubSeq(out, 1, kept) = SubSeq(queued, 1, kept)
       /\ tail = SelectSeq(probe.cur.values, LAMBDA e : Survives(probe.opt, e))
       /\ Len(tail) = Cardinality({i \in 1..Len(probe.cur.values) :
                                    Survives(probe.opt, probe.cur.values[i])})
       /\ ~probe.opt.append => Range(out) \cap Range(queued) = {}
       /\ (probe.opt.pick = DefaultOpt.pick /\ probe.opt.omit = DefaultOpt.omit)
            => out = SubSeq(queued, 1, kept) \o probe.cur.values
       /\ DefaultOpt.append

\* one value was queued; reflash({pick: "ext"}) put both entries of current
\* behind it in their order, and with append = false it would have left the
\* two alone
C22_Witness ==
  /\ probe.kind = "reflash" /\ probe.phase = "out"
  /\ probe.opt = [append |-> TRUE, omit |-> ArgArr(<<>>), pick |-> ArgStr("ext")]
  /\ probe.nxt.values = <<ForgedEntry(<<"ext", "queued">>, StrVal("q"))>>
  /\ probe.cur.values = << ForgedEntry(<<"ext", "inputs">>, StrVal("y")),
                           ForgedEntry(<<"ext", "error">>, StrVal("x")) >>
  /\ probe.out.values = probe.nxt.values \o probe.cur.values
  /\ FlashStore_reflash(probe.cur, probe.nxt, [probe.opt EXCEPT !.append = FALSE]).values
       = probe.cur.values

\* the positions of the ["inputs"] entries of a list of values
InputsAt(values) == {i \in 1..Len(values) : values[i].key = <<"inputs">>}

\* C23 as stated: flashInputs() does not enforce exclusivity: each call
\* appends one more ["inputs"] entry to next.values, and getInputs() in the
\* following request reads the first ["inputs"] entry of current.values in
\* stored order and ignores later ones.
C23_FlashInputsRepeats ==
  /\ [][\A r \in Reqs :
          Calls(r, "flashInputs") =>
            LET before == next[StoreOf(r)].values
                after == next'[StoreOf(r)].values
            IN /\ Len(after) = Len(before) + 1
               /\ SubSeq(after, 1, Len(before)) = before
               /\ after[Len(after)].key = <<"inputs">>]_vars
  /\ [](\A n \in Reqs :
          LET cur == current[StoreOf(n)]
              first == CHOOSE i \in InputsAt(cur.values) :
                         \A j \in InputsAt(cur.values) : i <= j
          IN (Started(n) /\ cur.valid /\ InputsAt(cur.values) # {}) =>
               /\ getInputs(cur).some
               /\ getInputs(cur).formData
                    = deserializeFormData(AsRecord(cur.values[first].value)).formData)

\* a value JSON represents: a string, null, a finite number, or an object of
\* lists of strings
JsonRepresentable(v) ==
  \/ v.t \in {"str", "null", "obj"}
  \/ v.t = "number" /\ v.s \notin NonFinite

\* request n got the cookie that the response of request m set
HandedOver(m, n) ==
  /\ Started(n) /\ prev[n] = m
  /\ CookieCommitted(m) /\ next[StoreOf(m)].valid
  /\ reqCookie[n] = Cookie(headers[m][Len(headers[m])].value)

UserPath(f) == f.form \in {"str", "arr"} /\ JsLength(f) > 0

\* the values of a list of entries
ValuesOf(entries) == [i \in 1..Len(entries) |-> entries[i].value]

\* C25 as stated: get and reflash address user flashes by the same key
\* paths: for every user key path f, reflash({pick: f, append: false})
\* carries into next exactly the values that get(f) returns from current,
\* and reflash({except: f}) drops exactly those; a value flashed under
\* "error" in the request before is carried by reflash({pick: "error"}).
C25_SameKeyPaths ==
  (probe.kind = "reflash" /\ probe.phase = "out" /\ ~probe.opt.append) =>
    /\ (UserPath(probe.opt.pick) /\ IsEmptyArg(probe.opt.omit)) =>
         ValuesOf(probe.out.values) = FlashStore_get(probe.cur, probe.opt.pick)
    /\ (UserPath(probe.opt.omit) /\ IsEmptyArg(probe.opt.pick)) =>
         probe.out.values
           = SelectSeq(probe.cur.values,
               LAMBDA e : ~IsPrefix(<<"ext">> \o KeySegs(probe.opt.omit), e.key))

\* the cookie text encoding {valid: true, values: []}
EmptyValidCookie ==
  JsonText([t |-> "object", validT |-> "boolean", validV |-> TRUE,
            valuesArr |-> TRUE, values |-> <<>>])

\* reflash options under which no entry of the model's containers survives
NoSurvivorOpts ==
  { [append |-> ap, omit |-> ArgArr(<<>>), pick |-> ArgStr("absent")] : ap \in BOOLEAN }
    \cup { [append |-> ap, omit |-> ArgArr2(<< <<"ext">>, <<"inputs">> >>),
            pick |-> ArgArr(<<>>)] : ap \in BOOLEAN }

\* the middleware of request r auto-reflashes in this step
AutoReflashStep(r) ==
  /\ pc[r] = "post" /\ pc'[r] = "sent"
  /\ autoReflash /\ method[r] = "GET" /\ status[r] \in 300..399

CheckedNames == {"name", "agree"}

\* C27 as stated: oldChecked(name) returns undefined iff the request has no
\* prior input snapshot; when there is a snapshot it returns true if the
\* snapshot has a field called name and false if not, so that
\* checkboxInputProps falls back to its default only when there was no
\* prior submission.  (Snapshots on which getInputs() raises are left
\* aside.)
C27_OldCheckedTriState ==
  \A r \in Reqs :
    (pc[r] = "handler" /\ ~getInputs(current[StoreOf(r)]).threw) =>
      \A name \in CheckedNames :
        LET snap == getInputs(current[StoreOf(r)])
            has == getAll(snap.formData, name) # <<>>
        IN /\ \A ret \in {oldChecked(r, name).ret, oldChecked_viaGet(r, name).ret} :
                /\ ret.some = snap.some
                /\ snap.some => ret.b = has
           /\ \A d \in BOOLEAN :
                checkboxInputProps(r, name, d).checked = (IF snap.some THEN has ELSE d)

====
